---- MODULE Spec2Model ----
(***************************************************************************)
(* Authorization core of our-storybook-collective: the tables stories and  *)
(* story_members, their row-level-security policies as they stand after    *)
(* the three migrations, the owner-membership trigger, and the client flow *)
(* CreateStory.handleSubmit.                                               *)
(*                                                                         *)
(* Row-level security is evaluated as PostgreSQL evaluates it: a command   *)
(* on a table is allowed for a row when at least one PERMISSIVE policy of  *)
(* that command accepts the row and every RESTRICTIVE policy accepts it; a *)
(* command with no permissive policy touches no row.  A sub-query inside a *)
(* policy runs as the calling user, so it sees only the rows the SELECT    *)
(* policy of the table it reads lets that user see; a SECURITY DEFINER     *)
(* function reads the whole table.                                         *)
(***************************************************************************)
EXTENDS Integers, FiniteSets, Sequences, TLC

\* ---------------------------------------------------------------- bounds
NumUsers == 3
MaxStories == 2
\* policy evaluations nested in one another before the evaluator gives up
MaxDepth == 3
\* stories a store of any content starts with
AnyStories == 1

Users == 1..NumUsers
StoryIds == 1..MaxStories
Roles == {"owner", "member"}

VARIABLES
    stories,        \* table public.stories: rows [id, is_public, created_by]
    story_members,  \* table public.story_members: rows [id, story_id, user_id, role]
    awaiting,       \* awaiting[u]: the story u's latest request created, if any
    submit,         \* submit[u]: where u's CreateStory.handleSubmit stands
    toast,          \* toast[u]: the title of the toast u's latest submission showed
    est,            \* est[i]: a replayed firing of the owner-membership trigger
    eval,           \* the policy evaluations in progress, innermost last
    req,            \* req[k]: one of two statements running concurrently, else <<>>
    dash            \* a Dashboard.fetchStories in progress or ended, else <<>>

store == <<stories, story_members>>
vars == <<stories, story_members, awaiting, submit, toast, est, eval, req, dash>>

\* ------------------------------------------------------------ the tables
StoryRows == [id : StoryIds, is_public : BOOLEAN, created_by : Users]

HasStory(_id) == \E s \in stories : s.id = _id

\* id UUID PRIMARY KEY DEFAULT gen_random_uuid(): an id no row has yet.  The
\* model names a row <<story_id, user_id, k>>, k the least number that keeps
\* the id unused, so that equal table contents are equal states.
FreshMemberId(rows, _story_id, _user_id) ==
    LET k == CHOOSE i \in 1..(Cardinality(rows) + 1) :
                 \A m \in rows : m.id # <<_story_id, _user_id, i>>
    IN  <<_story_id, _user_id, k>>

MemberRow(rows, _story_id, _user_id, _role) ==
    [id |-> FreshMemberId(rows, _story_id, _user_id), story_id |-> _story_id,
     user_id |-> _user_id, role |-> _role]

\* the unique index left out
UniqueViolation_NoIndex(rows, _story_id, _user_id) == FALSE

\* UNIQUE(story_id, user_id) / story_members_story_id_user_id_uniq
UniqueViolation(rows, _story_id, _user_id) ==
    \E m \in rows : m.story_id = _story_id /\ m.user_id = _user_id

\* ------------------------------------------- security definer functions
\* the helper without its created_by test: true of any user once the story
\* exists
is_story_creator_AnyStory(_story_id, _user_id) == HasStory(_story_id)

is_story_creator(_story_id, _user_id) ==
    \E s \in stories : s.id = _story_id /\ s.created_by = _user_id

is_story_owner(_story_id, _user_id) ==
    \E sm \in story_members :
        sm.story_id = _story_id /\ sm.user_id = _user_id /\ sm.role = "owner"

\* the trigger function writing no row
handle_new_story_owner_membership_NoRow(rows, NEWROW) ==
    [rows |-> rows, error |-> ""]

\* the trigger function writing the column default 'member' as the role
handle_new_story_owner_membership_Member(rows, NEWROW) ==
    IF UniqueViolation(rows, NEWROW.id, NEWROW.created_by)
    THEN [rows |-> rows, error |-> ""]
    ELSE [rows |-> rows \cup {MemberRow(rows, NEWROW.id, NEWROW.created_by, "member")},
          error |-> ""]

\* the trigger function without ON CONFLICT DO NOTHING
handle_new_story_owner_membership_Plain(rows, NEWROW) ==
    IF UniqueViolation(rows, NEWROW.id, NEWROW.created_by)
    THEN [rows |-> rows, error |-> "conflict"]
    ELSE [rows |-> rows \cup {MemberRow(rows, NEWROW.id, NEWROW.created_by, "owner")},
          error |-> ""]

\* INSERT INTO story_members (story_id, user_id, role)
\* VALUES (NEW.id, NEW.created_by, 'owner') ON CONFLICT (story_id, user_id)
\* DO NOTHING; RETURN NEW.  The result is the table afterwards and the error
\* the function raises ("" for none).
handle_new_story_owner_membership(rows, NEWROW) ==
    IF UniqueViolation(rows, NEWROW.id, NEWROW.created_by)
    THEN [rows |-> rows, error |-> ""]
    ELSE [rows |-> rows \cup {MemberRow(rows, NEWROW.id, NEWROW.created_by, "owner")},
          error |-> ""]

\* ------------------------------------------------ story_members policies
\* the dropped policy "Users can view memberships for their stories" kept:
\* FOR SELECT USING (user_id = auth.uid() OR EXISTS (SELECT 1 FROM
\*   story_members sm WHERE sm.story_id = story_members.story_id
\*   AND sm.user_id = auth.uid()))
UsersCanViewTheirOwnMemberships_OfTheirStories(uid, m) ==
    \/ m.user_id = uid
    \/ \E sm \in story_members : sm.story_id = m.story_id /\ sm.user_id = uid

\* FOR SELECT USING (auth.uid() = user_id)
UsersCanViewTheirOwnMemberships(uid, m) == uid = m.user_id

\* the rows uid could see under the dropped policy "Users can view
\* memberships for their stories": every row of a story uid is a member of
VisibleMembers_OfTheirStories(uid) ==
    {m \in story_members : UsersCanViewTheirOwnMemberships_OfTheirStories(uid, m)}

\* the rows of story_members a sub-query run by uid can see
VisibleMembers(uid) ==
    {m \in story_members : UsersCanViewTheirOwnMemberships(uid, m)}

\* the bootstrap rule asking the membership table, as the dropped policy
\* "Story owners can insert members" did
CreatorsCanInsertTheirOwnerMembership_Owner(uid, m) ==
    /\ m.user_id = uid
    /\ m.role = "owner"
    /\ is_story_owner(m.story_id, uid)

\* FOR INSERT WITH CHECK (user_id = auth.uid() AND role = 'owner'
\*                        AND is_story_creator(story_id, auth.uid()))
CreatorsCanInsertTheirOwnerMembership(uid, m) ==
    /\ m.user_id = uid
    /\ m.role = "owner"
    /\ is_story_creator(m.story_id, uid)

\* the dropped policy "Story owners can insert members" kept beside the
\* bootstrap policy: permissive policies are OR-ed
StoryMembersInsertCheck_WithOwners(uid, m) ==
    \/ CreatorsCanInsertTheirOwnerMembership(uid, m)
    \/ is_story_owner(m.story_id, uid)

StoryMembersInsertCheck(uid, m) == CreatorsCanInsertTheirOwnerMembership(uid, m)

\* the dropped policy "Story owners can delete members" kept:
\* FOR DELETE USING (is_story_owner(story_id, auth.uid()))
StoryMembersDeleteUsing_Owner(uid, m) == is_story_owner(m.story_id, uid)

\* the final migration drops every FOR DELETE policy of story_members and
\* creates none: no permissive policy, so no row passes
StoryMembersDeleteUsing(uid, m) == FALSE

\* an UPDATE policy for owners, as "Story owners can delete members" was
\* for DELETE: FOR UPDATE USING (is_story_owner(story_id, auth.uid()))
StoryMembersUpdateUsing_Owner(uid, m) == is_story_owner(m.story_id, uid)

\* no migration creates a FOR UPDATE (or FOR ALL) policy on story_members:
\* no permissive policy, so no row passes
StoryMembersUpdateUsing(uid, m) == FALSE

\* ------------------------------------------------------ stories policies
\* the INSERT policy without its test: WITH CHECK (true)
AuthenticatedUsersCanCreateStories_Anyone(uid, s) == TRUE

\* FOR INSERT WITH CHECK (auth.uid() = created_by)
AuthenticatedUsersCanCreateStories(uid, s) == uid = s.created_by

\* the SELECT policy asking for an owner row, as the write policies do
UsersCanViewPublicStoriesOrTheirStories_Owner(uid, s) ==
    \/ s.is_public = TRUE
    \/ s.id \in {m.story_id : m \in {x \in VisibleMembers(uid) :
                                        x.user_id = uid /\ x.role = "owner"}}

\* is_public = true OR id IN (SELECT story_id FROM story_members
\*                            WHERE user_id = auth.uid())
UsersCanViewPublicStoriesOrTheirStories(uid, s) ==
    \/ s.is_public = TRUE
    \/ s.id \in {m.story_id : m \in {x \in VisibleMembers(uid) : x.user_id = uid}}

MembersCanTargetTheirStoriesBase(uid, s) ==
    \/ s.is_public = TRUE
    \/ s.id \in {m.story_id : m \in {x \in VisibleMembers(uid) : x.user_id = uid}}

MembersCanTargetTheirStoriesForDeleteBase(uid, s) ==
    \/ s.is_public = TRUE
    \/ s.id \in {m.story_id : m \in {x \in VisibleMembers(uid) : x.user_id = uid}}

\* the restrictive policy without sm.role = 'owner'
OnlyOwnersCanUpdateStories_AnyRole(uid, s) ==
    \E sm \in VisibleMembers(uid) : sm.story_id = s.id /\ sm.user_id = uid

\* AS RESTRICTIVE: EXISTS (SELECT 1 FROM story_members sm WHERE
\*   sm.story_id = stories.id AND sm.user_id = auth.uid() AND sm.role = 'owner')
OnlyOwnersCanUpdateStories(uid, s) ==
    \E sm \in VisibleMembers(uid) :
        sm.story_id = s.id /\ sm.user_id = uid /\ sm.role = "owner"

OnlyOwnersCanDeleteStories(uid, s) ==
    \E sm \in VisibleMembers(uid) :
        sm.story_id = s.id /\ sm.user_id = uid /\ sm.role = "owner"

StoriesInsertCheck(uid, s) == AuthenticatedUsersCanCreateStories(uid, s)
StoriesSelectUsing(uid, s) == UsersCanViewPublicStoriesOrTheirStories(uid, s)
\* permissive policies OR-ed, restrictive policies AND-ed on top
StoriesUpdateUsing(uid, s) ==
    MembersCanTargetTheirStoriesBase(uid, s) /\ OnlyOwnersCanUpdateStories(uid, s)
StoriesDeleteUsing(uid, s) ==
    MembersCanTargetTheirStoriesForDeleteBase(uid, s) /\ OnlyOwnersCanDeleteStories(uid, s)

\* ------------------------------------------------------------- requests
\* no story: awaiting[u], submit[u].story and est[i].story hold a set of at
\* most one story id
NoStory == {}

\* the outcome of each statement, as PostgREST reports it: "ok" (a row was
\* written or returned), "none" (no row passed the USING filter, no error),
\* "forbidden" (42501, a WITH CHECK failed), "conflict" (23505) and
\* "fk_violation" (23503).  Checks run in PostgreSQL's order: WITH CHECK,
\* then unique indexes, then foreign keys.
InsertStoryResult(c, NEWROW) ==
    IF ~StoriesInsertCheck(c, NEWROW) THEN "forbidden"
    ELSE IF HasStory(NEWROW.id) THEN "conflict"
    ELSE "ok"

InsertMemberResult(c, _story_id, _user_id, _role) ==
    IF ~StoryMembersInsertCheck(c, MemberRow(story_members, _story_id, _user_id, _role))
    THEN "forbidden"
    ELSE IF UniqueViolation(story_members, _story_id, _user_id) THEN "conflict"
    ELSE IF ~HasStory(_story_id) THEN "fk_violation"
    ELSE "ok"

DeleteMemberHit(c, _story_id, _user_id) ==
    {m \in story_members :
        /\ m.story_id = _story_id /\ m.user_id = _user_id
        /\ StoryMembersDeleteUsing(c, m)}

\* a DELETE that must find its row, as a client asking for .single() would
DeleteMemberResult_MustFind(c, _story_id, _user_id) ==
    IF DeleteMemberHit(c, _story_id, _user_id) = {} THEN "not_found" ELSE "ok"

\* a DELETE that matches no row is not an error
DeleteMemberResult(c, _story_id, _user_id) ==
    IF DeleteMemberHit(c, _story_id, _user_id) = {} THEN "none" ELSE "ok"

UpdateMemberHit(c, _story_id, _user_id) ==
    {m \in story_members :
        /\ m.story_id = _story_id /\ m.user_id = _user_id
        /\ StoryMembersUpdateUsing(c, m)}

\* UPDATE story_members SET story_id, user_id, role: NEWROW holds the three
\* columns after the update
UpdateMemberResult(c, _story_id, _user_id, NEWROW) ==
    IF UpdateMemberHit(c, _story_id, _user_id) = {} THEN "none"
    ELSE IF ~StoryMembersUpdateUsing(c, NEWROW) THEN "forbidden"
    ELSE IF /\ <<NEWROW.story_id, NEWROW.user_id>> # <<_story_id, _user_id>>
            /\ UniqueViolation(story_members, NEWROW.story_id, NEWROW.user_id)
         THEN "conflict"
    ELSE IF ~HasStory(NEWROW.story_id) THEN "fk_violation"
    ELSE "ok"

\* A policy with USING and no WITH CHECK applies USING to the new row too.
\* story_members.story_id REFERENCES stories(id) has no ON UPDATE action.
UpdateStoryHit(c, _id) == {s \in stories : s.id = _id /\ StoriesUpdateUsing(c, s)}

UpdateStoryResult(c, _id, NEWROW) ==
    IF UpdateStoryHit(c, _id) = {} THEN "none"
    ELSE IF ~StoriesUpdateUsing(c, NEWROW) THEN "forbidden"
    ELSE IF NEWROW.id # _id /\ HasStory(NEWROW.id) THEN "conflict"
    ELSE IF NEWROW.id # _id /\ \E m \in story_members : m.story_id = _id
         THEN "fk_violation"
    ELSE "ok"

DeleteStoryHit(c, _id) == {s \in stories : s.id = _id /\ StoriesDeleteUsing(c, s)}

SelectStoryHit(c, _id) == {s \in stories : s.id = _id /\ StoriesSelectUsing(c, s)}

\* any request of caller c ends the window that follows c's story creation
Followed(c) == [awaiting EXCEPT ![c] = NoStory]

Idle == [pc |-> "idle", story |-> NoStory]

Init ==
    /\ stories = {}
    /\ story_members = {}
    /\ awaiting = [u \in Users |-> NoStory]
    /\ submit = [u \in Users |-> Idle]
    /\ toast = [u \in Users |-> ""]
    /\ est = [i \in 1..2 |-> [pc |-> "idle", story |-> NoStory, error |-> ""]]
    /\ eval = <<>>
    /\ req = <<>>
    /\ dash = <<>>

\* INSERT INTO stories (id, is_public, created_by) by caller c; the AFTER
\* INSERT trigger runs inside the same statement, and an error it raised
\* would abort the statement
InsertStory(c, _id, _is_public, _created_by) ==
    LET NEWROW == [id |-> _id, is_public |-> _is_public, created_by |-> _created_by]
        trg == handle_new_story_owner_membership(story_members, NEWROW)
        res == IF InsertStoryResult(c, NEWROW) = "ok" /\ trg.error # ""
               THEN trg.error ELSE InsertStoryResult(c, NEWROW)
    IN  /\ IF res = "ok"
           THEN /\ stories' = stories \cup {NEWROW}
                /\ story_members' = trg.rows
                /\ awaiting' = [awaiting EXCEPT ![c] = {_id}]
           ELSE /\ UNCHANGED store
                /\ awaiting' = Followed(c)
        /\ UNCHANGED <<submit, toast, est, eval, req, dash>>

\* the insert written as an upsert: ON CONFLICT (story_id, user_id) DO UPDATE
\* SET role = EXCLUDED.role
InsertMember_Upsert(c, _story_id, _user_id, _role) ==
    /\ story_members' =
           IF InsertMemberResult(c, _story_id, _user_id, _role) = "ok"
           THEN story_members \cup {MemberRow(story_members, _story_id, _user_id, _role)}
           ELSE IF InsertMemberResult(c, _story_id, _user_id, _role) = "conflict"
           THEN {IF m.story_id = _story_id /\ m.user_id = _user_id
                 THEN [m EXCEPT !.role = _role] ELSE m : m \in story_members}
           ELSE story_members
    /\ awaiting' = Followed(c)
    /\ UNCHANGED <<stories, submit, toast, est, eval, req, dash>>

\* INSERT INTO story_members (story_id, user_id, role) by caller c
InsertMember(c, _story_id, _user_id, _role) ==
    /\ story_members' =
           IF InsertMemberResult(c, _story_id, _user_id, _role) = "ok"
           THEN story_members \cup {MemberRow(story_members, _story_id, _user_id, _role)}
           ELSE story_members
    /\ awaiting' = Followed(c)
    /\ UNCHANGED <<stories, submit, toast, est, eval, req, dash>>

\* DELETE FROM story_members WHERE story_id = .. AND user_id = .. by caller c
DeleteMember(c, _story_id, _user_id) ==
    /\ story_members' = story_members \ DeleteMemberHit(c, _story_id, _user_id)
    /\ awaiting' = Followed(c)
    /\ UNCHANGED <<stories, submit, toast, est, eval, req, dash>>

\* UPDATE story_members SET story_id = .., user_id = .., role = ..
\* WHERE story_id = .. AND user_id = .. by caller c
UpdateMember(c, _story_id, _user_id, _new_story_id, _new_user_id, _role) ==
    LET NEWROW == [story_id |-> _new_story_id, user_id |-> _new_user_id, role |-> _role]
    IN  /\ story_members' =
               IF UpdateMemberResult(c, _story_id, _user_id, NEWROW) = "ok"
               THEN (story_members \ UpdateMemberHit(c, _story_id, _user_id)) \cup
                    {[m EXCEPT !.story_id = _new_story_id, !.user_id = _new_user_id,
                               !.role = _role] : m \in UpdateMemberHit(c, _story_id, _user_id)}
               ELSE story_members
        /\ awaiting' = Followed(c)
        /\ UNCHANGED <<stories, submit, toast, est, eval, req, dash>>

\* UPDATE stories SET id = .., is_public = .., created_by = .. WHERE id = ..
UpdateStory(c, _id, _new_id, _is_public, _created_by) ==
    LET NEWROW == [id |-> _new_id, is_public |-> _is_public, created_by |-> _created_by]
    IN  /\ stories' = IF UpdateStoryResult(c, _id, NEWROW) = "ok"
                      THEN (stories \ UpdateStoryHit(c, _id)) \cup {NEWROW}
                      ELSE stories
        /\ awaiting' = Followed(c)
        /\ UNCHANGED <<story_members, submit, toast, est, eval, req, dash>>

\* the foreign key left out: the story goes, its membership rows stay
DeleteStory_NoForeignKey(c, _id) ==
    /\ stories' = stories \ DeleteStoryHit(c, _id)
    /\ UNCHANGED story_members
    /\ awaiting' = Followed(c)
    /\ UNCHANGED <<submit, toast, est, eval, req, dash>>

\* DELETE FROM stories WHERE id = ..; story_members rows go by ON DELETE CASCADE
DeleteStory(c, _id) ==
    /\ stories' = stories \ DeleteStoryHit(c, _id)
    /\ story_members' =
           {m \in story_members : \A s \in DeleteStoryHit(c, _id) : m.story_id # s.id}
    /\ awaiting' = Followed(c)
    /\ UNCHANGED <<submit, toast, est, eval, req, dash>>

Next ==
    \E c \in Users :
        \/ \E i \in StoryIds, p \in BOOLEAN, u \in Users : InsertStory(c, i, p, u)
        \/ \E i \in StoryIds, u \in Users, r \in Roles : InsertMember(c, i, u, r)
        \/ \E i \in StoryIds, u \in Users : DeleteMember(c, i, u)
        \/ \E i \in StoryIds, n \in StoryIds, p \in BOOLEAN, u \in Users :
               UpdateStory(c, i, n, p, u)
        \/ \E i \in StoryIds : DeleteStory(c, i)

\* the store as the final migration leaves an empty database, under the
\* statements any authenticated caller can send
Spec == Init /\ [][Next]_vars

\* ------------------------------------------------- stores of any content
\* Before the final migration the policies "Story owners can insert members"
\* and "Story owners can delete members" let an owner add any user in any
\* role and remove any row, and no trigger wrote the owner row: every table
\* content the constraints admit could be built, and the final migration
\* keeps the rows it finds.
StoryTables ==
    {{[id |-> i, is_public |-> f[i].is_public, created_by |-> f[i].created_by] : i \in ids} :
        ids \in SUBSET (1..AnyStories),
        f \in [1..AnyStories -> [is_public : BOOLEAN, created_by : Users]]}

MemberTables(ids) ==
    {{[id |-> <<p[1], p[2], 1>>, story_id |-> p[1], user_id |-> p[2], role |-> f[p]] :
          p \in {q \in ids \X Users : f[q] # ""}} :
        f \in [ids \X Users -> Roles \cup {""}]}

InitAny ==
    /\ stories \in StoryTables
    /\ story_members \in MemberTables({s.id : s \in stories})
    /\ awaiting = [u \in Users |-> NoStory]
    /\ submit = [u \in Users |-> Idle]
    /\ toast = [u \in Users |-> ""]
    /\ est = [i \in 1..2 |-> [pc |-> "idle", story |-> NoStory, error |-> ""]]
    /\ eval = <<>>
    /\ req = <<>>
    /\ dash = <<>>

SpecAny == InitAny /\ [][Next]_vars

\* the statements on story_members alone, over stores of any content
NextMembers ==
    \E c \in Users :
        \/ \E i \in StoryIds, u \in Users, r \in Roles : InsertMember(c, i, u, r)
        \/ \E i \in StoryIds, u \in Users : DeleteMember(c, i, u)
        \/ \E i \in StoryIds, u \in Users, n \in StoryIds, v \in Users, r \in Roles :
               UpdateMember(c, i, u, n, v, r)

SpecMembers == InitAny /\ [][NextMembers]_vars

\* ------------------------------------------- CreateStory.handleSubmit
\* const { data: story, error: storyError } = await supabase.from('stories')
\*     .insert({.., is_public: isPublic, created_by: user.id}).select().single();
\* if (storyError) throw storyError;
\* The upload of a cover image comes first and its error is thrown as well.
\* The id is the column default, an id no story has.  .select() makes the
\* statement INSERT .. RETURNING, which also puts the new row under the
\* SELECT policy of stories; whether that test sees the row the trigger
\* writes is left open, so a private story may pass it or fail it.
SubmitInsertStory(u, _id, _is_public, uploadError) ==
    LET NEWROW == [id |-> _id, is_public |-> _is_public, created_by |-> u]
        trg == handle_new_story_owner_membership(story_members, NEWROW)
    IN  /\ submit[u].pc = "idle"
        /\ ~HasStory(_id)
        /\ \/ /\ uploadError \/ InsertStoryResult(u, NEWROW) # "ok" \/ trg.error # ""
              /\ toast' = [toast EXCEPT ![u] = "Error creating story"]
              /\ awaiting' = Followed(u)
              /\ UNCHANGED <<store, submit, est, eval, req, dash>>
           \/ /\ ~uploadError /\ InsertStoryResult(u, NEWROW) = "ok" /\ trg.error = ""
              /\ ~StoriesSelectUsing(u, NEWROW)
              /\ toast' = [toast EXCEPT ![u] = "Error creating story"]
              /\ awaiting' = Followed(u)
              /\ UNCHANGED <<store, submit, est, eval, req, dash>>
           \/ /\ ~uploadError /\ InsertStoryResult(u, NEWROW) = "ok" /\ trg.error = ""
              /\ stories' = stories \cup {NEWROW}
              /\ story_members' = trg.rows
              /\ StoriesSelectUsing(u, NEWROW)'
              /\ submit' = [submit EXCEPT ![u] = [pc |-> "member", story |-> {_id}]]
              /\ awaiting' = [awaiting EXCEPT ![u] = {_id}]
              /\ toast' = [toast EXCEPT ![u] = ""]
              /\ UNCHANGED <<est, eval, req, dash>>

\* const { error: memberError } = await supabase.from('story_members')
\*     .insert({ story_id: story.id, user_id: user.id, role: 'owner' });
\* if (memberError) throw memberError;
\* toast({ title: 'Story created!' })  /  catch: toast({ title: 'Error creating story' })
SubmitInsertMember(u) ==
    LET _id == CHOOSE i \in StoryIds : i \in submit[u].story
        res == InsertMemberResult(u, _id, u, "owner")
    IN  /\ submit[u].pc = "member"
        /\ story_members' =
               IF res = "ok"
               THEN story_members \cup {MemberRow(story_members, _id, u, "owner")}
               ELSE story_members
        /\ toast' = [toast EXCEPT ![u] =
                        IF res = "ok" THEN "Story created!" ELSE "Error creating story"]
        /\ submit' = [submit EXCEPT ![u] = Idle]
        /\ awaiting' = Followed(u)
        /\ UNCHANGED <<stories, est, eval, req, dash>>

NextSubmit ==
    \/ \E u \in Users, i \in StoryIds, p \in BOOLEAN, e \in BOOLEAN :
           SubmitInsertStory(u, i, p, e)
    \/ \E u \in Users : SubmitInsertMember(u)
    \/ \E c \in Users, i \in StoryIds : DeleteStory(c, i)

\* the users create stories through the page while stories are being deleted
SpecSubmit == Init /\ [][NextSubmit]_vars

\* --------------------------------- replayed firings of the trigger
\* A creation event delivered twice: the row of the story is written and
\* create_owner_membership_on_story_insert fires twice for it, each firing
\* running handle_new_story_owner_membership with the same NEW, in either
\* order.  The unique index arbitrates each INSERT .. ON CONFLICT as a whole.
ReplayInsertStory(c, _id, _is_public) ==
    LET NEWROW == [id |-> _id, is_public |-> _is_public, created_by |-> c]
    IN  /\ \A i \in 1..2 : est[i].pc # "fired"
        /\ InsertStoryResult(c, NEWROW) = "ok"
        /\ stories' = stories \cup {NEWROW}
        /\ est' = [i \in 1..2 |-> [pc |-> "fired", story |-> {_id}, error |-> ""]]
        /\ UNCHANGED <<story_members, awaiting, submit, toast, eval, req, dash>>

EstablishOwnership(i) ==
    LET NEWROW == CHOOSE s \in stories : s.id \in est[i].story
        trg == handle_new_story_owner_membership(story_members, NEWROW)
    IN  /\ est[i].pc = "fired"
        /\ story_members' = trg.rows
        /\ est' = [est EXCEPT ![i] = [pc |-> "done", story |-> est[i].story,
                                      error |-> trg.error]]
        /\ UNCHANGED <<stories, awaiting, submit, toast, eval, req, dash>>

\* the replay over, the story is deleted by its owner
ReplayDeleteStory(c, _id) ==
    /\ \A i \in 1..2 : est[i].pc # "fired"
    /\ DeleteStoryHit(c, _id) # {}
    /\ stories' = stories \ DeleteStoryHit(c, _id)
    /\ story_members' =
           {m \in story_members : \A s \in DeleteStoryHit(c, _id) : m.story_id # s.id}
    /\ UNCHANGED <<awaiting, submit, toast, est, eval, req, dash>>

NextReplay ==
    \/ \E c \in Users, i \in StoryIds, p \in BOOLEAN : ReplayInsertStory(c, i, p)
    \/ \E i \in 1..2 : EstablishOwnership(i)
    \/ \E c \in Users, i \in StoryIds : ReplayDeleteStory(c, i)

SpecReplay == Init /\ [][NextReplay]_vars

\* ------------------------------------------------ evaluating a decision
\* PostgreSQL decides a command on a row by evaluating the policies of
\* (table, command).  A sub-query inside a policy runs as the caller: every
\* row it scans is first put to the SELECT policies of the table it reads,
\* which is a nested evaluation.  A SECURITY DEFINER function reads its
\* table as the definer, past row-level security: no nested evaluation.
Tables == {"stories", "story_members"}
Commands == {"SELECT", "INSERT", "UPDATE", "DELETE"}

\* the first migration's story_members SELECT policy kept: its EXISTS reads
\* story_members itself
PolicyReads_SelfReference(table, cmd) ==
    IF table = "stories" /\ cmd \in {"SELECT", "UPDATE", "DELETE"} THEN {"story_members"}
    ELSE IF table = "story_members" /\ cmd = "SELECT" THEN {"story_members"}
    ELSE {}

\* the tables the policies of (table, cmd) read in a sub-query: the SELECT,
\* UPDATE and DELETE policies of stories (base and restrictive) have
\* EXISTS (SELECT 1 FROM story_members ...); "Users can view their own
\* memberships" and the INSERT policy of stories read no table;
\* "Creators can insert their owner membership" reads stories through
\* is_story_creator only; story_members has no UPDATE or DELETE policy.
PolicyReads(table, cmd) ==
    IF table = "stories" /\ cmd \in {"SELECT", "UPDATE", "DELETE"} THEN {"story_members"}
    ELSE {}

\* the rows a sub-query of a decision about story _id scans in table
\* (WHERE story_id = _id, WHERE id = _id)
RowsToScan(table, _id) ==
    IF table = "stories" THEN Cardinality({s \in stories : s.id = _id})
    ELSE Cardinality({m \in story_members : m.story_id = _id})

Frame(table, cmd, c, _id) ==
    [table |-> table, cmd |-> cmd, uid |-> c, story |-> _id,
     scan |-> [t \in Tables |->
                  IF t \in PolicyReads(table, cmd) THEN RowsToScan(t, _id) ELSE 0]]

\* caller c sends a command on a row of story _id
BeginDecision(c, table, cmd, _id) ==
    /\ eval = <<>>
    /\ eval' = <<Frame(table, cmd, c, _id)>>
    /\ UNCHANGED <<store, awaiting, submit, toast, est, req, dash>>

\* the innermost evaluation scans the next row of a table it reads, which
\* puts that row to the table's SELECT policies
ScanRow(t) ==
    LET top == eval[Len(eval)]
    IN  /\ eval # <<>>
        /\ top.scan[t] > 0
        /\ Len(eval) < MaxDepth
        /\ eval' = Append([eval EXCEPT ![Len(eval)].scan[t] = top.scan[t] - 1],
                          Frame(t, "SELECT", top.uid, top.story))
        /\ UNCHANGED <<store, awaiting, submit, toast, est, req, dash>>

\* the innermost evaluation has read all it reads and returns its verdict
ReturnVerdict ==
    /\ eval # <<>>
    /\ \A t \in Tables : eval[Len(eval)].scan[t] = 0
    /\ eval' = SubSeq(eval, 1, Len(eval) - 1)
    /\ UNCHANGED <<store, awaiting, submit, toast, est, req, dash>>

EvalStep == (\E t \in Tables : ScanRow(t)) \/ ReturnVerdict

NextEval ==
    \/ \E c \in Users, table \in Tables, cmd \in Commands, i \in StoryIds :
           BeginDecision(c, table, cmd, i)
    \/ \E t \in Tables : ScanRow(t)
    \/ ReturnVerdict

\* an evaluation that can take a step takes it: the backend runs the query
\* to its end
SpecEval == InitAny /\ [][NextEval]_vars /\ WF_vars(EvalStep)

\* ------------------------------------------ two statements at the same time
\* Two sessions each send one statement on the same (story, user) pair, in
\* autocommit.  An INSERT evaluates the WITH CHECK of the row, then enters
\* the row in the unique index, where it waits for a concurrent insert of
\* the same key to commit and then fails with 23505, then checks the
\* foreign key.  A DELETE scans the rows its snapshot shows and the USING
\* clause accepts, then deletes each, skipping a row a concurrent statement
\* has deleted meanwhile.
Request(kind, c, _story_id, _user_id, _role) ==
    [pc |-> "start", kind |-> kind, c |-> c, story |-> _story_id, user |-> _user_id,
     role |-> _role, result |-> "", hit |-> {}, before |-> story_members]

BeginAdds(c1, c2, _story_id, _user_id, r1, r2) ==
    /\ req = <<>>
    /\ req' = <<Request("add", c1, _story_id, _user_id, r1),
                Request("add", c2, _story_id, _user_id, r2)>>
    /\ UNCHANGED <<store, awaiting, submit, toast, est, eval, dash>>

BeginRemoves(c1, c2, _story_id, _user_id) ==
    /\ req = <<>>
    /\ req' = <<Request("remove", c1, _story_id, _user_id, ""),
                Request("remove", c2, _story_id, _user_id, "")>>
    /\ UNCHANGED <<store, awaiting, submit, toast, est, eval, dash>>

\* WITH CHECK of the INSERT policy on the new row
AddCheck(k) ==
    /\ req # <<>>
    /\ req[k].kind = "add" /\ req[k].pc = "start"
    /\ req' = IF StoryMembersInsertCheck(req[k].c,
                     MemberRow(story_members, req[k].story, req[k].user, req[k].role))
              THEN [req EXCEPT ![k].pc = "checked"]
              ELSE [req EXCEPT ![k].pc = "done", ![k].result = "forbidden"]
    /\ UNCHANGED <<store, awaiting, submit, toast, est, eval, dash>>

\* unique index, foreign key, commit
AddWrite(k) ==
    LET res == IF UniqueViolation(story_members, req[k].story, req[k].user) THEN "conflict"
               ELSE IF ~HasStory(req[k].story) THEN "fk_violation"
               ELSE "ok"
    IN  /\ req # <<>>
        /\ req[k].kind = "add" /\ req[k].pc = "checked"
        /\ story_members' =
               IF res = "ok"
               THEN story_members \cup
                      {MemberRow(story_members, req[k].story, req[k].user, req[k].role)}
               ELSE story_members
        /\ req' = [req EXCEPT ![k].pc = "done", ![k].result = res]
        /\ UNCHANGED <<stories, awaiting, submit, toast, est, eval, dash>>

\* the rows the DELETE's scan finds
RemoveScan(k) ==
    /\ req # <<>>
    /\ req[k].kind = "remove" /\ req[k].pc = "start"
    /\ req' = [req EXCEPT ![k].pc = "scanned",
                          ![k].hit = DeleteMemberHit(req[k].c, req[k].story, req[k].user)]
    /\ UNCHANGED <<store, awaiting, submit, toast, est, eval, dash>>

\* delete the rows found that are still there, commit
RemoveWrite(k) ==
    /\ req # <<>>
    /\ req[k].kind = "remove" /\ req[k].pc = "scanned"
    /\ story_members' = story_members \ req[k].hit
    /\ req' = [req EXCEPT ![k].pc = "done",
                          ![k].result = IF req[k].hit \cap story_members = {}
                                        THEN "none" ELSE "ok"]
    /\ UNCHANGED <<stories, awaiting, submit, toast, est, eval, dash>>

NextRace ==
    \/ \E c1 \in Users, c2 \in Users, i \in StoryIds, u \in Users, r1 \in Roles, r2 \in Roles :
           BeginAdds(c1, c2, i, u, r1, r2)
    \/ \E c1 \in Users, c2 \in Users, i \in StoryIds, u \in Users : BeginRemoves(c1, c2, i, u)
    \/ \E k \in 1..2 : AddCheck(k)
    \/ \E k \in 1..2 : AddWrite(k)
    \/ \E k \in 1..2 : RemoveScan(k)
    \/ \E k \in 1..2 : RemoveWrite(k)

SpecRace == InitAny /\ [][NextRace]_vars

\* ------------------------------------------------- Dashboard.fetchStories
\* Three SELECTs, each awaited, so other callers' statements come between
\* them.  quiet records that the store was, at each read, what it was at the
\* first.
\* 1: from('story_members').select('story_id').eq('user_id', user.id); no
\* row: setStories([])
FetchMemberships(c) ==
    LET memberData == {m \in VisibleMembers(c) : m.user_id = c}
        storyIds == {m.story_id : m \in memberData}
    IN  /\ dash = <<>>
        /\ dash' = [pc |-> IF memberData = {} THEN "done" ELSE "stories", c |-> c,
                    storyIds |-> storyIds, storiesData |-> {}, list |-> {},
                    before |-> store, quiet |-> TRUE]
        /\ UNCHANGED <<store, awaiting, submit, toast, est, eval, req>>

\* 2: from('stories').select('*').in('id', storyIds)
FetchStoryDetails ==
    /\ dash # <<>>
    /\ dash.pc = "stories"
    /\ dash' = [dash EXCEPT
           !.pc = "counts",
           !.storiesData = {s \in stories : s.id \in dash.storyIds /\ StoriesSelectUsing(dash.c, s)},
           !.quiet = dash.quiet /\ store = dash.before]
    /\ UNCHANGED <<store, awaiting, submit, toast, est, eval, req>>

\* memberCounts[story.id] || 1
MemberCount(allMembers, _id) ==
    LET n == Cardinality({m \in allMembers : m.story_id = _id})
    IN  IF n = 0 THEN 1 ELSE n

\* 3: from('story_members').select('story_id').in('story_id', storyIds),
\* counted per story; setStories(storiesWithCounts)
FetchMemberCounts ==
    LET allMembers == {m \in VisibleMembers(dash.c) : m.story_id \in dash.storyIds}
    IN  /\ dash # <<>>
        /\ dash.pc = "counts"
        /\ dash' = [dash EXCEPT
               !.pc = "done",
               !.list = {[story |-> s, member_count |-> MemberCount(allMembers, s.id)] :
                            s \in dash.storiesData},
               !.quiet = dash.quiet /\ store = dash.before]
        /\ UNCHANGED <<store, awaiting, submit, toast, est, eval, req>>

\* a fetch is between its first read and its last
Fetching == dash # <<>> /\ dash.pc # "done"

\* the statements of other sessions that add or remove what the fetch reads,
\* while it runs
NextDashboard ==
    \/ \E c \in Users : FetchMemberships(c)
    \/ FetchStoryDetails
    \/ FetchMemberCounts
    \/ Fetching /\ \E c \in Users, i \in StoryIds, p \in BOOLEAN : InsertStory(c, i, p, c)
    \/ Fetching /\ \E c \in Users, i \in StoryIds : InsertMember(c, i, c, "owner")
    \/ Fetching /\ \E c \in Users, i \in StoryIds : DeleteStory(c, i)

SpecDashboard == InitAny /\ [][NextDashboard]_vars

\* ================================================================ claims
\* caller c holds a row of story _id with a role in _roles
Holds(c, _id, _roles) ==
    \E m \in story_members : m.story_id = _id /\ m.user_id = c /\ m.role \in _roles

RowsOf(_id, u) == {m \in story_members : m.story_id = _id /\ m.user_id = u}

\* C1: every existing story has at least one membership row with role
\* 'owner', after any sequence of story creations, membership inserts and
\* removals, story updates and story deletes.
EveryStoryHasAnOwner ==
    \A s \in stories : \E m \in story_members : m.story_id = s.id /\ m.role = "owner"

\* a story whose creator of record was changed and that has two owners
EveryStoryHasAnOwner_Witness ==
    \E s \in stories :
        /\ Cardinality({m \in story_members : m.story_id = s.id /\ m.role = "owner"}) >= 2
        /\ \E t \in stories : t.id # s.id

\* C2: for every (story, user) pair there is at most one membership row.
AtMostOneRowPerPair ==
    \A i \in StoryIds, u \in Users : Cardinality(RowsOf(i, u)) <= 1

\* the creator's own insert of the row the trigger wrote passes the policy
\* and is stopped by the unique index
AtMostOneRowPerPair_Witness ==
    \E s \in stories :
        /\ InsertMemberResult(s.created_by, s.id, s.created_by, "owner") = "conflict"
        /\ Cardinality(RowsOf(s.id, s.created_by)) = 1

ViewIffPublicOrMember ==
    \A c \in Users, s \in stories :
        (s \in SelectStoryHit(c, s.id)) <=> (s.is_public \/ Holds(c, s.id, Roles))

\* a private story that a caller with role 'member' sees and a non-member
\* does not, and a public story that a non-member sees
ViewIffPublicOrMember_Witness ==
    /\ \E s \in stories, c, d \in Users :
          /\ ~s.is_public /\ Holds(c, s.id, {"member"}) /\ ~Holds(d, s.id, Roles)
          /\ SelectStoryHit(c, s.id) # {} /\ SelectStoryHit(d, s.id) = {}
    /\ \E s \in stories, d \in Users :
          s.is_public /\ ~Holds(d, s.id, Roles) /\ SelectStoryHit(d, s.id) # {}

\* C5: updating a story's fields and deleting it are each allowed if and
\* only if the caller holds an owner row on the story; the restrictive
\* policies alone decide that, whatever the permissive base policy says.
WriteIffOwner ==
    \A c \in Users, s \in stories :
        /\ StoriesUpdateUsing(c, s) <=> Holds(c, s.id, {"owner"})
        /\ StoriesDeleteUsing(c, s) <=> Holds(c, s.id, {"owner"})
        /\ OnlyOwnersCanUpdateStories(c, s) <=> Holds(c, s.id, {"owner"})
        /\ OnlyOwnersCanDeleteStories(c, s) <=> Holds(c, s.id, {"owner"})
        /\ (s \in DeleteStoryHit(c, s.id)) <=> Holds(c, s.id, {"owner"})
        /\ \A p \in BOOLEAN, u \in Users :
               UpdateStoryResult(c, s.id, [id |-> s.id, is_public |-> p, created_by |-> u])
                   = IF Holds(c, s.id, {"owner"}) THEN "ok" ELSE "none"

\* a public story with an owner, a caller with role 'member' and a
\* non-member: the owner's update passes, the other two touch no row
WriteIffOwner_Witness ==
    \E s \in stories, o, c, d \in Users :
        /\ s.is_public
        /\ Holds(o, s.id, {"owner"}) /\ Holds(c, s.id, {"member"}) /\ ~Holds(d, s.id, Roles)
        /\ UpdateStoryHit(o, s.id) # {}
        /\ UpdateStoryHit(c, s.id) = {} /\ UpdateStoryHit(d, s.id) = {}
        /\ DeleteStoryHit(c, s.id) = {} /\ DeleteStoryHit(d, s.id) = {}

\* C6: inserting the membership row (story, user, role) passes the policy
\* if and only if the caller inserts their own owner row on a story they
\* created, or the caller already holds an owner row on the story.
InsertAllowedIffCreatorOrOwner ==
    \A c \in Users, i \in StoryIds, u \in Users, r \in Roles :
        (InsertMemberResult(c, i, u, r) # "forbidden")
            <=> \/ (u = c /\ r = "owner" /\ is_story_creator(i, c))
                \/ Holds(c, i, {"owner"})

\* C7: removing a membership row of a story is allowed if and only if the
\* caller holds an owner row on that story.
RemoveAllowedIffOwner ==
    \A c \in Users, m \in story_members :
        (m \in DeleteMemberHit(c, m.story_id, m.user_id)) <=> Holds(c, m.story_id, {"owner"})

\* C8: A creates the private story T: A views it, B does not, and A's insert
\* of (T, B, 'member') succeeds; once B holds role 'member', B views T and
\* does not manage its members; once T is public every caller views it.
TripScenario ==
    \A s \in stories, A, B \in Users :
        /\ (A # B /\ awaiting[A] = {s.id} /\ ~s.is_public /\ ~Holds(B, s.id, Roles))
               => /\ SelectStoryHit(A, s.id) # {}
                  /\ SelectStoryHit(B, s.id) = {}
                  /\ InsertMemberResult(A, s.id, B, "member") = "ok"
        /\ Holds(B, s.id, {"member"})
               => SelectStoryHit(B, s.id) # {} /\ ~is_story_owner(s.id, B)
        /\ s.is_public => SelectStoryHit(B, s.id) # {}

\* C9: when the ownership establishment step has run twice for the same
\* story and creator, in either order, exactly one membership row
\* (story, creator, 'owner') exists and neither run raised an error.
DoubleFireLeavesOneOwnerRow ==
    \A s \in stories :
        (est[1].pc = "done" /\ est[2].pc = "done" /\ est[1].story = {s.id})
            => /\ est[1].error = "" /\ est[2].error = ""
               /\ Cardinality(RowsOf(s.id, s.created_by)) = 1
               /\ Holds(s.created_by, s.id, {"owner"})

DoubleFireLeavesOneOwnerRow_Witness ==
    \E s \in stories :
        /\ est[1].pc = "done" /\ est[2].pc = "done"
        /\ est[1].story = {s.id} /\ est[2].story = {s.id}
        /\ Cardinality(RowsOf(s.id, s.created_by)) = 1

\* C10: in handleSubmit, after the story insert has succeeded, a Conflict on
\* the explicit insert of the creator's owner row ends in 'Story created!'.
ConflictEndsInStoryCreated ==
    [][\A u \in Users :
          (/\ submit[u].pc = "member"
           /\ submit'[u].pc = "idle"
           /\ \E i \in submit[u].story : InsertMemberResult(u, i, u, "owner") = "conflict")
              => toast'[u] = "Story created!"]_vars

\* the users holding an owner row of story _id
Owners(_id) == {m.user_id : m \in {r \in story_members : r.story_id = _id /\ r.role = "owner"}}

\* C11: from a story R whose only owner is its creator U1, U1's insert of
\* (R, U2, 'owner') succeeds; once U1 and U2 both own R some owner's removal
\* of U1's row succeeds, and R keeps an owner row afterwards.
SecondOwnerThenRemoveFirst ==
    \A s \in stories, U1, U2 \in Users :
        /\ (U1 # U2 /\ s.created_by = U1 /\ Owners(s.id) = {U1})
               => InsertMemberResult(U1, s.id, U2, "owner") = "ok"
        /\ (U1 # U2 /\ {U1, U2} \subseteq Owners(s.id))
               => \E o \in Owners(s.id) :
                      /\ DeleteMemberHit(o, s.id, U1) = RowsOf(s.id, U1)
                      /\ \E m \in story_members \ DeleteMemberHit(o, s.id, U1) :
                             m.story_id = s.id /\ m.role = "owner"

ReadsOwnRowsOnly ==
    \A c \in Users, m \in story_members :
        /\ (m \in VisibleMembers(c)) <=> (m.user_id = c)
        /\ (Holds(c, m.story_id, {"owner"}) /\ m.user_id # c) => m \notin VisibleMembers(c)

\* an owner and another member of one story: each reads their own row and
\* not the other's
ReadsOwnRowsOnly_Witness ==
    \E m, n \in story_members :
        /\ m.story_id = n.story_id /\ m.user_id # n.user_id /\ m.role = "owner"
        /\ m \in VisibleMembers(m.user_id) /\ n \notin VisibleMembers(m.user_id)
        /\ n \in VisibleMembers(n.user_id) /\ m \notin VisibleMembers(n.user_id)

\* story _id exists and caller c may not view it
Hidden(c, _id) == HasStory(_id) /\ SelectStoryHit(c, _id) = {}

\* what caller c gets from every statement and helper call that names story _id
Probe(c, _id) ==
    [view |-> SelectStoryHit(c, _id),
     update |-> [NEWROW \in StoryRows |-> UpdateStoryResult(c, _id, NEWROW)],
     delete |-> DeleteStoryHit(c, _id),
     members |-> {m \in VisibleMembers(c) : m.story_id = _id},
     insert |-> [u \in Users, r \in Roles |-> InsertMemberResult(c, _id, u, r)],
     remove |-> [u \in Users |-> DeleteMemberResult(c, _id, u)],
     creator |-> [u \in Users |-> is_story_creator(_id, u)],
     owner |-> [u \in Users |-> is_story_owner(_id, u)]]

\* C14: a caller who may not view story S gets the same outcome from every
\* operation (story read, update, delete; membership read, insert, delete;
\* is_story_creator and is_story_owner called directly) in a state where S
\* does not exist as in the state where S exists, private, without a row of
\* the caller.  The two states compared are those before and after the step
\* that brings S into existence.
ExistenceHidden ==
    [][\A c \in Users, i \in StoryIds :
          (~HasStory(i) /\ Hidden(c, i)') => Probe(c, i)' = Probe(c, i)]_vars

\* C15: the created_by of an existing story never changes: across every
\* step, a story that exists before and after has the same created_by.
CreatedByNeverChanges ==
    [][\A s \in stories : \A t \in stories' :
          t.id = s.id => t.created_by = s.created_by]_vars

\* the WITH CHECK decision on caller c's insert of (story _id, c, 'owner')
BootstrapDecision(c, _id) ==
    StoryMembersInsertCheck(c, MemberRow(story_members, _id, c, "owner"))

\* C17: the decision on a caller's insert of their own owner row is "the
\* story exists and its created_by is the caller"; it is the same in any two
\* states that agree on the story's record, whatever story_members holds,
\* and it allows the insert when the story has no membership row at all.
BootstrapReadsTheStoryRecordOnly ==
    [][\A c \in Users, i \in StoryIds :
          /\ BootstrapDecision(c, i) <=> \E s \in stories : s.id = i /\ s.created_by = c
          /\ ({s \in stories : s.id = i} = {s \in stories : s.id = i}')
                 => (BootstrapDecision(c, i)' <=> BootstrapDecision(c, i))
          /\ (\E s \in stories : s.id = i /\ s.created_by = c)
                 /\ (\A m \in story_members : m.story_id # i)
                 => BootstrapDecision(c, i)]_vars

\* a story without any membership row whose creator's insert is allowed and
\* carried out, and a story whose creator already holds a row of role
\* 'member' and is allowed all the same
BootstrapReadsTheStoryRecordOnly_Witness ==
    \E s \in stories :
        /\ BootstrapDecision(s.created_by, s.id)
        /\ \/ /\ \A m \in story_members : m.story_id # s.id
              /\ InsertMemberResult(s.created_by, s.id, s.created_by, "owner") = "ok"
           \/ /\ Holds(s.created_by, s.id, {"member"})
              /\ \E u \in Users : u # s.created_by /\ Holds(u, s.id, {"owner"})

\* C19 as stated: an INSERT into story_members for a (story, user) pair that
\* already has a row fails with Conflict, whoever sends it and whatever the
\* role, and leaves story_members unchanged.
AddOfExistingPairConflicts ==
    [][\A c \in Users, i \in StoryIds, u \in Users, r \in Roles :
          (RowsOf(i, u) # {} /\ InsertMember(c, i, u, r))
              => /\ InsertMemberResult(c, i, u, r) = "conflict"
                 /\ story_members' = story_members]_vars

\* C19 amended: an INSERT into story_members for a pair that already has a
\* row fails, with Conflict when the row passes the insert policy and with
\* Forbidden (the policy is checked first) when it does not, and no step
\* that changes story_members is such an INSERT.
AddOfExistingPairFails ==
    [][/\ \A c \in Users, i \in StoryIds, u \in Users, r \in Roles :
             RowsOf(i, u) # {}
                 => InsertMemberResult(c, i, u, r) =
                        IF StoryMembersInsertCheck(c, MemberRow(story_members, i, u, r))
                        THEN "conflict" ELSE "forbidden"
       /\ story_members' # story_members
             => \A c \in Users, i \in StoryIds, u \in Users, r \in Roles :
                    RowsOf(i, u) # {} => ~InsertMember(c, i, u, r)]_vars

\* a creator holding a row of role 'member' on their story: their insert of
\* their owner row passes the policy and meets Conflict, another caller's
\* insert for the same pair is Forbidden
AddOfExistingPairFails_Witness ==
    \E s \in stories, c \in Users :
        /\ c # s.created_by
        /\ Holds(s.created_by, s.id, {"member"})
        /\ awaiting[s.created_by] = NoStory
        /\ InsertMemberResult(s.created_by, s.id, s.created_by, "owner") = "conflict"
        /\ InsertMemberResult(c, s.id, s.created_by, "owner") = "forbidden"

\* no policy of a (table, command) is being evaluated inside itself
NoPolicyReentered ==
    \A a, b \in 1..Len(eval) :
        a # b => <<eval[a].table, eval[a].cmd>> # <<eval[b].table, eval[b].cmd>>

\* C16: the evaluation of every decision of the final policy set (any
\* command on a row of stories or story_members, by any caller) ends, and
\* while it runs no policy is entered again inside itself, directly or
\* through the policy of the table it reads.
PolicyEvaluationTerminates ==
    /\ []NoPolicyReentered
    /\ [](eval # <<>> => <>(eval = <<>>))

\* the owner test of an UPDATE on stories has put the last story_members
\* row it scans to the SELECT policy of story_members
PolicyEvaluationTerminates_Witness ==
    /\ Len(eval) = 2
    /\ eval[1].table = "stories" /\ eval[1].cmd = "UPDATE"
    /\ eval[2].table = "story_members" /\ eval[2].cmd = "SELECT"
    /\ eval[1].scan["story_members"] = 0
    /\ Cardinality({m \in story_members : m.story_id = eval[1].story}) >= 2

\* both concurrent statements of the given kind have ended
BothDone(kind) ==
    /\ req # <<>>
    /\ \A k \in 1..2 : req[k].kind = kind /\ req[k].pc = "done"

\* the insert policy accepts the row of statement k
Admitted(k) ==
    StoryMembersInsertCheck(req[k].c,
        MemberRow(story_members, req[k].story, req[k].user, req[k].role))

\* C18 as stated: when two INSERTs for the same (story, user) pair have run
\* concurrently, exactly one has inserted the row and succeeded, the other
\* has met Conflict, and the pair has exactly one row.
ConcurrentAddsOneWinner ==
    BothDone("add") =>
        /\ \E k \in 1..2 : req[k].result = "ok" /\ req[3 - k].result = "conflict"
        /\ Cardinality(RowsOf(req[1].story, req[1].user)) = 1

\* C18 amended: when two INSERTs for the same pair have run concurrently,
\* both accepted by the insert policy and the pair without a row when they
\* began, exactly one has inserted the row and succeeded, the other has met
\* Conflict, and the pair has exactly one row; when the pair had a row both
\* have met Conflict and the table is as it was; an INSERT the policy
\* refuses has met Forbidden and inserted nothing.
ConcurrentAdmittedAddsOneWinner ==
    BothDone("add") =>
        /\ (Admitted(1) /\ Admitted(2) /\ ~UniqueViolation(req[1].before, req[1].story, req[1].user))
               => /\ \E k \in 1..2 : req[k].result = "ok" /\ req[3 - k].result = "conflict"
                  /\ Cardinality(RowsOf(req[1].story, req[1].user)) = 1
                  /\ Cardinality(story_members) = Cardinality(req[1].before) + 1
        /\ (Admitted(1) /\ Admitted(2) /\ UniqueViolation(req[1].before, req[1].story, req[1].user))
               => /\ \A k \in 1..2 : req[k].result = "conflict"
                  /\ story_members = req[1].before
        /\ \A k \in 1..2 : ~Admitted(k) => req[k].result = "forbidden"
        /\ (~Admitted(1) /\ ~Admitted(2)) => story_members = req[1].before

\* two accepted INSERTs of a pair that had no row: the second to reach the
\* index lost
ConcurrentAdmittedAddsOneWinner_Witness ==
    /\ BothDone("add")
    /\ Admitted(1) /\ Admitted(2)
    /\ ~UniqueViolation(req[1].before, req[1].story, req[1].user)
    /\ req[1].result = "conflict" /\ req[2].result = "ok"

NoMembershipUpdatedInPlace ==
    [][/\ \A c \in Users, i \in StoryIds, u \in Users,
            n \in StoryIds, v \in Users, r \in Roles :
             UpdateMember(c, i, u, n, v, r)
                 => /\ UpdateMemberResult(c, i, u,
                            [story_id |-> n, user_id |-> v, role |-> r]) = "none"
                    /\ story_members' = story_members
       /\ \A m \in story_members : \A k \in story_members' : k.id = m.id => k = m]_vars

\* an owner whose UPDATE of a co-member's role to 'owner' passes no row
NoMembershipUpdatedInPlace_Witness ==
    \E m \in story_members, o \in Users :
        /\ m.role = "member" /\ o # m.user_id
        /\ Holds(o, m.story_id, {"owner"})
        /\ UpdateMemberResult(o, m.story_id, m.user_id,
               [story_id |-> m.story_id, user_id |-> m.user_id, role |-> "owner"]) = "none"

\* C22: every story_members row refers to an existing story; a step that
\* deletes a story leaves no row of that story; an INSERT into
\* story_members for a story id that does not exist inserts nothing.
MembershipRefersToStory ==
    [][/\ \A m \in story_members : HasStory(m.story_id)
       /\ \A m \in story_members' : HasStory(m.story_id)'
       /\ \A i \in StoryIds :
             (HasStory(i) /\ ~HasStory(i)') => \A m \in story_members' : m.story_id # i
       /\ \A c \in Users, i \in StoryIds, u \in Users, r \in Roles :
             ~HasStory(i) => /\ InsertMemberResult(c, i, u, r) \in {"forbidden", "fk_violation"}
                             /\ InsertMember(c, i, u, r) => story_members' = story_members]_vars

\* one story id without a story and without rows, refused to a caller's
\* insert of their owner row, beside a story that has two membership rows
MembershipRefersToStory_Witness ==
    \E i \in StoryIds, s \in stories :
        /\ ~HasStory(i)
        /\ \A m \in story_members : m.story_id # i
        /\ Cardinality({m \in story_members : m.story_id = s.id}) = 2
        /\ InsertMemberResult(s.created_by, i, s.created_by, "owner") = "forbidden"

\* C23: an INSERT into stories that names another user as created_by is
\* refused and changes nothing; every story that comes into existence has
\* the caller of the step as created_by, and the only membership row it
\* starts with is that caller's owner row.
CreatedByIsTheCaller ==
    [][/\ \A c \in Users, u \in Users, i \in StoryIds, p \in BOOLEAN :
             c # u => /\ InsertStoryResult(c, [id |-> i, is_public |-> p, created_by |-> u])
                            = "forbidden"
                      /\ InsertStory(c, i, p, u) => UNCHANGED store
       /\ \A s \in stories' :
             ~HasStory(s.id)
                 => /\ awaiting'[s.created_by] = {s.id}
                    /\ \A m \in story_members' :
                           m.story_id = s.id => m.user_id = s.created_by /\ m.role = "owner"
                    /\ \E m \in story_members' : m.story_id = s.id]_vars

\* user u has just created a story while another user's story exists, and
\* an insert naming u as creator is refused to every other caller
CreatedByIsTheCaller_Witness ==
    \E s \in stories, t \in stories :
        /\ s.created_by # t.created_by
        /\ awaiting[s.created_by] = {s.id}
        /\ Owners(s.id) = {s.created_by}
        /\ \A c \in Users \ {s.created_by} : \A i \in StoryIds :
               InsertStoryResult(c, [id |-> i, is_public |-> TRUE, created_by |-> s.created_by])
                   = "forbidden"

\* caller c holds no owner row of story s and is not its created_by
Outsider(c, s) == ~Holds(c, s.id, {"owner"}) /\ s.created_by # c

\* some statement sent by caller c
StatementBy(c) ==
    \/ \E i \in StoryIds, p \in BOOLEAN, u \in Users : InsertStory(c, i, p, u)
    \/ \E i \in StoryIds, u \in Users, r \in Roles : InsertMember(c, i, u, r)
    \/ \E i \in StoryIds, u \in Users : DeleteMember(c, i, u)
    \/ \E i \in StoryIds, n \in StoryIds, p \in BOOLEAN, u \in Users :
           UpdateStory(c, i, n, p, u)
    \/ \E i \in StoryIds : DeleteStory(c, i)

\* C24: a step that changes or deletes story S, or adds, removes or changes
\* a membership row of S, is not a statement of a caller who holds no owner
\* row of S and is not its created_by.  Such a step leaves S and its rows as
\* they were, so those callers stay what they were and no sequence of their
\* statements does more.
OutsidersChangeNothing ==
    [][\A s \in stories :
          (\/ s \notin stories'
           \/ {m \in story_members : m.story_id = s.id}
                  # {m \in story_members' : m.story_id = s.id})
              => \A c \in Users : Outsider(c, s) => ~StatementBy(c)]_vars

\* a public story with an owner, a caller of role 'member' and a caller
\* without a row, neither the created_by: every write either of them sends
\* at it is refused or passes no row
OutsidersChangeNothing_Witness ==
    \E s \in stories, o, c, d \in Users :
        /\ s.is_public /\ Holds(o, s.id, {"owner"})
        /\ Holds(c, s.id, {"member"}) /\ ~Holds(d, s.id, Roles)
        /\ Outsider(c, s) /\ Outsider(d, s)
        /\ \A x \in {c, d} :
               /\ UpdateStoryHit(x, s.id) = {} /\ DeleteStoryHit(x, s.id) = {}
               /\ InsertMemberResult(x, s.id, x, "owner") = "forbidden"
               /\ DeleteMemberHit(x, s.id, o) = {}

\* C25: from an empty store under the final policy set, every membership
\* row a step inserts is (story, U, 'owner') with U the story's created_by
\* in the state the step leaves (written by the trigger or by U's own
\* INSERT); no state holds a row of role 'member'; and no DELETE on
\* story_members removes a row.
OnlyCreatorOwnerRowsInserted ==
    [][/\ \A m \in story_members' \ story_members :
             /\ m.role = "owner"
             /\ \E s \in stories' : s.id = m.story_id /\ s.created_by = m.user_id
       /\ \A m \in story_members : m.role # "member"
       /\ \A m \in story_members' : m.role # "member"
       /\ story_members' # story_members
             => \A c \in Users, i \in StoryIds, u \in Users : ~DeleteMember(c, i, u)]_vars

\* a story with two owner rows: the trigger's for its first created_by and
\* the later created_by's own, whose removal by either owner passes no row
OnlyCreatorOwnerRowsInserted_Witness ==
    \E s \in stories, o \in Users :
        /\ o # s.created_by
        /\ Owners(s.id) = {o, s.created_by}
        /\ \A m \in story_members : m.role = "owner"
        /\ DeleteMemberHit(o, s.id, s.created_by) = {}
        /\ DeleteMemberHit(s.created_by, s.id, o) = {}
        /\ InsertMemberResult(o, s.id, o, "member") = "forbidden"


====
